---- MODULE Spec2Model ----
(***************************************************************************)
(* Model of aluminum_mix_optimizer.py: the linear-programming blend        *)
(* builder (AlloyOptimizer.optimize_alloy), the composition calculation    *)
(* (calculate_final_composition), and the Streamlit page (main) that       *)
(* keeps the lot list and the last optimisation result in session state.   *)
(*                                                                         *)
(* Units.  All arithmetic is exact integer arithmetic:                     *)
(*   - element contents and targets: hundredths of a percentage point     *)
(*     (97.5 % = 9750, the band 0.5 = 50);                                 *)
(*   - prices: tenths of a yuan per kg (14.5 = 145);                       *)
(*   - order weight and stock: kg;                                         *)
(*   - solution weights: 1/GridDen kg, so that a weight of k/GridDen of    *)
(*     the order weight W is the integer k * W;                            *)
(*   - total cost: tenths of a yuan / GridDen.                             *)
(* A constraint row is [coeffs, rhs] meaning coeffs . x <= rhs; rows are   *)
(* the code's rows multiplied by a positive constant that clears the       *)
(* denominators, which does not change the set they describe.              *)
(***************************************************************************)
EXTENDS Integers, Sequences, FiniteSets, TLC

VARIABLES
    materials_list,      \* st.session_state.materials_list
    next_material_id,    \* st.session_state.next_material_id
    order_requirements,  \* the order widgets' values (order_weight and contents)
    use_constraints,     \* the "max ratio" checkbox
    opt_result,          \* st.session_state.opt_result
    opt_inputs,          \* history: the arguments of the call that produced opt_result
    invoked,             \* history: the last script run called optimize_alloy
    display,             \* what the result area of the last script run ended in
    pc                   \* position of the direct-call harness

vars == <<materials_list, next_material_id, order_requirements, use_constraints,
          opt_result, opt_inputs, invoked, display, pc>>

-----------------------------------------------------------------------------
(* Bounds of the model *)

\* Longest lot list explored.
MaxLots == 3

\* The solver's answers are searched on a grid of 1/GridDen of the order weight.
GridDen == 10

\* Largest value of next_material_id explored by the page.
MaxId == 4

-----------------------------------------------------------------------------
(* Program constants *)

\* the +-0.5 percentage point band, in hundredths of a point
BAND == 50

\* the 0.3 of the scarcity cap, as RatioNum / RatioDen
RatioNum == 3
RatioDen == 10

\* number_input bounds of the order widgets and validate_order_inputs
MinOrderWeight == 100
MaxOrderWeight == 100000
AlMin == 8500
AlMax == 9990
OtherMin == 0
OtherMax == 1000
TotalMax == 10000

\* the "unused" threshold 0.001 kg as ThresholdNum / ThresholdDen
ThresholdNum == 1
ThresholdDen == 1000

None == [none |-> TRUE]

elements == <<"Al", "Cu", "Mg", "Zn">>

\* Four of the fifteen presets of AlloyOptimizer.__init__ (density is never read
\* by the optimisation and is left out):
\*   can = 易拉罐, cable_core = 线缆铝芯, cookware = 厨具铝材,
\*   general_alloy = 通用铝合金.
material_presets ==
    [ can              |-> [Al |-> 9750, Cu |-> 10, Mg |-> 100, Zn |-> 100, price |-> 150],
      cable_core       |-> [Al |-> 9900, Cu |-> 30, Mg |-> 30,  Zn |-> 20,  price |-> 180],
      cookware         |-> [Al |-> 9800, Cu |-> 10, Mg |-> 40,  Zn |-> 120, price |-> 145],
      general_alloy    |-> [Al |-> 9350, Cu |-> 60, Mg |-> 180, Zn |-> 380, price |-> 175] ]

-----------------------------------------------------------------------------
(* Helpers on sequences of integers *)

RECURSIVE SumSeq(_)
SumSeq(s) == IF s = <<>> THEN 0 ELSE Head(s) + SumSeq(Tail(s))

RECURSIVE DotFrom(_, _, _)
DotFrom(a, b, i) == IF i > Len(a) THEN 0 ELSE a[i] * b[i] + DotFrom(a, b, i + 1)

Dot(a, b) == DotFrom(a, b, 1)

Range(s) == {s[i] : i \in 1..Len(s)}

\* [0]*i + [1] + [0]*(n-1-i), for the 1-based index idx
UnitRow(n, idx) == [j \in 1..n |-> IF j = idx THEN 1 ELSE 0]

-----------------------------------------------------------------------------
(* AlloyOptimizer.optimize_alloy: the problem builder *)

\* c = [material['price'] for material in materials_data]
Objective(materials_data) ==
    [i \in 1..Len(materials_data) |-> materials_data[i].price]

\* 1. A_eq / b_eq: the sum of the weights is the order weight
EqRows(materials_data, order) ==
    << [coeffs |-> [i \in 1..Len(materials_data) |-> 1],
        rhs    |-> order.total_weight * GridDen] >>

\* Variant of ElementRows: the band is computed as target/100 -+ 0.5 instead of
\* (target -+ 0.5)/100, so it is 50 points wide on each side.
ElementRows_band_not_scaled(materials_data, order, element) ==
    LET total_w    == order.total_weight
        target_min == order.element_content[element] - BAND * 100
        target_max == order.element_content[element] + BAND * 100
        coeffs     == [i \in 1..Len(materials_data) |->
                          materials_data[i].element_content[element]]
    IN  << [coeffs |-> [i \in 1..Len(coeffs) |-> -coeffs[i]],
            rhs    |-> -target_min * total_w * GridDen],
           [coeffs |-> coeffs,
            rhs    |-> target_max * total_w * GridDen] >>

\* the two rows of one element: -coeffs.x <= -target_min*total_w and
\* coeffs.x <= target_max*total_w
ElementRows(materials_data, order, element) ==
    LET total_w    == order.total_weight
        target_min == order.element_content[element] - BAND
        target_max == order.element_content[element] + BAND
        coeffs     == [i \in 1..Len(materials_data) |->
                          materials_data[i].element_content[element]]
    IN  << [coeffs |-> [i \in 1..Len(coeffs) |-> -coeffs[i]],
            rhs    |-> -target_min * total_w * GridDen],
           [coeffs |-> coeffs,
            rhs    |-> target_max * total_w * GridDen] >>

\* 2. the band rows of every element, in the order of self.elements
BandRows(materials_data, order) ==
    ElementRows(materials_data, order, elements[1])
    \o ElementRows(materials_data, order, elements[2])
    \o ElementRows(materials_data, order, elements[3])
    \o ElementRows(materials_data, order, elements[4])

\* Variant of StockRows: the row is [0]*n, the 1 of the lot is missing.
StockRows_zero_rows(materials_data) ==
    [i \in 1..Len(materials_data) |->
        [coeffs |-> [j \in 1..Len(materials_data) |-> 0],
         rhs    |-> materials_data[i].stock * GridDen]]

\* 3. one stock row per lot: x_i <= stock_i
StockRows(materials_data) ==
    [i \in 1..Len(materials_data) |->
        [coeffs |-> UnitRow(Len(materials_data), i),
         rhs    |-> materials_data[i].stock * GridDen]]

\* Variant of InsertByStock: an unstable sort, equal keys end in reverse order.
RECURSIVE InsertByStock_unstable(_, _)
InsertByStock_unstable(sorted, p) ==
    IF sorted = <<>> THEN <<p>>
    ELSE IF Head(sorted)[2] < p[2]
         THEN <<Head(sorted)>> \o InsertByStock_unstable(Tail(sorted), p)
         ELSE <<p>> \o sorted

\* list.sort(key=...) is stable: an element goes after every element of the
\* sorted prefix whose key is not larger.
RECURSIVE InsertByStock(_, _)
InsertByStock(sorted, p) ==
    IF sorted = <<>> THEN <<p>>
    ELSE IF Head(sorted)[2] <= p[2]
         THEN <<Head(sorted)>> \o InsertByStock(Tail(sorted), p)
         ELSE <<p>> \o sorted

RECURSIVE SortByStock(_)
SortByStock(stocks) ==
    IF stocks = <<>> THEN <<>>
    ELSE InsertByStock(SortByStock(SubSeq(stocks, 1, Len(stocks) - 1)),
                       stocks[Len(stocks)])

\* Variant of FirstTwo: stocks[:1], only the lot of least stock is capped.
FirstTwo_only_first(s) == SubSeq(s, 1, IF Len(s) < 1 THEN Len(s) ELSE 1)

\* stocks[:2]
FirstTwo(s) == SubSeq(s, 1, IF Len(s) < 2 THEN Len(s) ELSE 2)

\* the rows "x_idx <= 0.3 * total_weight" of the entries of a sorted stock list
CapRows(n_materials, order, entries) ==
    [j \in 1..Len(entries) |->
        [coeffs |-> [i \in 1..n_materials |-> IF i = entries[j][1] THEN RatioDen ELSE 0],
         rhs    |-> RatioNum * order.total_weight * GridDen]]

\* Variant of ScarcityRows: the test len(stocks) >= 2 is missing.
ScarcityRows_no_length_test(materials_data, order, max_ratio_constraint) ==
    IF ~max_ratio_constraint THEN <<>>
    ELSE LET stocks == SortByStock([i \in 1..Len(materials_data) |->
                                       <<i, materials_data[i].stock>>])
         IN  CapRows(Len(materials_data), order, FirstTwo(stocks))

\* 4. the scarcity cap rows: x_idx <= 0.3 * total_weight for the two lots of
\* least stock, only when the flag is set and there are at least two lots
ScarcityRows(materials_data, order, max_ratio_constraint) ==
    IF ~max_ratio_constraint THEN <<>>
    ELSE LET stocks == SortByStock([i \in 1..Len(materials_data) |->
                                       <<i, materials_data[i].stock>>])
         IN  IF Len(stocks) >= 2
             THEN CapRows(Len(materials_data), order, FirstTwo(stocks))
             ELSE <<>>

\* A_ub / b_ub in the order the code appends them
UbRows(materials_data, order, max_ratio_constraint) ==
    BandRows(materials_data, order)
    \o StockRows(materials_data)
    \o ScarcityRows(materials_data, order, max_ratio_constraint)

-----------------------------------------------------------------------------
(* linprog(c, A_ub, b_ub, A_eq, b_eq, bounds, method='highs'): the external *)
(* solver, by its contract.  It answers with an optimal point, reports that *)
(* none exists, or raises.                                                  *)

RECURSIVE KVecs(_, _)
KVecs(n, budget) ==
    IF n = 0 THEN {<<>>}
    ELSE UNION {{<<k>> \o v : v \in KVecs(n - 1, budget - k)} : k \in 0..budget}

KGrid == [n \in 0..MaxLots |-> KVecs(n, GridDen)]

\* bounds = [(0, None)]*n on the grid: the points searched are the
\* non-negative multiples of total_weight / GridDen, not more than
\* total_weight together
GridPoints(n, total_weight) ==
    {[i \in 1..n |-> k[i] * total_weight] : k \in KGrid[n]}

Satisfies(row, x) == Dot(row.coeffs, x) <= row.rhs

IsFeasible(x, ub, eq) ==
    /\ \A j \in 1..Len(eq) : Dot(eq[j].coeffs, x) = eq[j].rhs
    /\ \A j \in 1..Len(ub) : Satisfies(ub[j], x)

Linprog(c, ub, eq, n, total_weight) ==
    LET feasible == {x \in GridPoints(n, total_weight) : IsFeasible(x, ub, eq)}
        costs    == {Dot(c, x) : x \in feasible}
        fun      == CHOOSE m \in costs : \A o \in costs : m <= o
        best     == {x \in feasible : Dot(c, x) = fun}
    IN  {[status |-> "raised"]}
        \cup (IF feasible = {}
              THEN {[status |-> "infeasible"]}
              ELSE {[status |-> "optimal", x |-> x, fun |-> fun] : x \in best})

\* Variant of ResultOf: the call of the solver is not inside try/except.
ResultOf_uncaught(solved) ==
    IF solved.status = "raised"
    THEN [raised |-> "Exception"]
    ELSE IF solved.status = "optimal"
         THEN [success |-> TRUE, total_cost |-> solved.fun,
               material_weights |-> solved.x, message |-> "optimization succeeded"]
         ELSE [success |-> FALSE, message |-> "no feasible solution"]

\* lines 127-148: the result dictionary built from the solver's answer
ResultOf(solved) ==
    IF solved.status = "raised"
    THEN [success |-> FALSE, message |-> "solver error"]
    ELSE IF solved.status = "optimal"
         THEN [success |-> TRUE, total_cost |-> solved.fun,
               material_weights |-> solved.x, message |-> "optimization succeeded"]
         ELSE [success |-> FALSE, message |-> "no feasible solution"]

\* the instance handed to the solver: <<c, A_ub with b_ub, A_eq with b_eq>>
LpInstance(materials_data, order, max_ratio_constraint) ==
    << Objective(materials_data),
       UbRows(materials_data, order, max_ratio_constraint),
       EqRows(materials_data, order) >>

\* every value optimize_alloy can return on these arguments: the instance is
\* built once, solved, and the answer is turned into the result
optimize_alloy(materials_data, order, max_ratio_constraint) ==
    UNION {{ResultOf(solved) :
               solved \in Linprog(lp[1], lp[2], lp[3],
                                  Len(materials_data), order.total_weight)} :
           lp \in {LpInstance(materials_data, order, max_ratio_constraint)}}

-----------------------------------------------------------------------------
(* AlloyOptimizer.calculate_final_composition *)

IndexError == [raised |-> "IndexError"]

\* An element's percentage is the exact fraction num / den (hundredths of a
\* point).  sum(weights) == 0 returns None before any weight is indexed;
\* weights[i] raises IndexError when the lot list is longer than the weights.
calculate_final_composition(materials_data, weights) ==
    LET total_weight == SumSeq(weights)
    IN  IF total_weight = 0 THEN None
        ELSE IF Len(materials_data) > Len(weights) THEN IndexError
        ELSE [element \in Range(elements) |->
                [num |-> SumSeq([i \in 1..Len(materials_data) |->
                            weights[i] * materials_data[i].element_content[element]]),
                 den |-> total_weight]]

-----------------------------------------------------------------------------
(* main: the result area, lines 519-583 *)

\* weights[i] > 0.001
IsUsed(w) == w * ThresholdDen > ThresholdNum * GridDen

\* How the display of a stored result ends: the tables are shown ("results"),
\* the failure message is shown ("error_message"), or the script run stops in
\* an exception Streamlit reports as a traceback.
InterpretResult(materials, order, result) ==
    IF result = None THEN "no_result"
    ELSE IF ~result.success THEN "error_message"
    ELSE LET weights    == result.material_weights
             total_cost == result.total_cost
             final_comp == calculate_final_composition(materials, weights)
         IN  IF final_comp = IndexError THEN "IndexError"           \* line 160
             ELSE IF Len(materials) > Len(weights) THEN "IndexError" \* line 533
             ELSE IF order.total_weight = 0
                  THEN "ZeroDivisionError"                          \* lines 549, 553
             ELSE IF final_comp = None THEN "TypeError"             \* line 562
             ELSE IF /\ total_cost = 0
                     /\ \E i \in 1..Len(materials) : IsUsed(weights[i])
                  THEN "non_finite_figures"                         \* line 575
             ELSE "results"

\* lines 489-583: nothing of the result area runs while the lot list is empty
ResultArea(materials, order, result) ==
    IF materials = <<>> THEN "need_materials"
    ELSE InterpretResult(materials, order, result)

-----------------------------------------------------------------------------
(* Direct calls of the optimizer: optimize_alloy applied to arbitrary      *)
(* arguments, and its result interpreted as main does.                     *)

Lot(id, name, stock_kg, custom_price) ==
    [id |-> id, name |-> name,
     element_content |-> [Al |-> material_presets[name].Al,
                          Cu |-> material_presets[name].Cu,
                          Mg |-> material_presets[name].Mg,
                          Zn |-> material_presets[name].Zn],
     price |-> custom_price, stock |-> stock_kg]

PresetNames == DOMAIN material_presets

CoreStocks == {10, 5000}

CoreWeights == {0, 100, 1000}

DefaultContent == [Al |-> 9500, Cu |-> 50, Mg |-> 100, Zn |-> 200]

ScenarioContent == [Al |-> 9800, Cu |-> 20, Mg |-> 50, Zn |-> 50]

CoreOrders ==
    {[total_weight |-> w, element_content |-> t] :
        w \in CoreWeights, t \in {DefaultContent, ScenarioContent}}

\* lot lists of distinct names, each lot with its preset price
CoreLotLists ==
    UNION {{[i \in 1..n |-> Lot(i, names[i], stocks[i], material_presets[names[i]].price)] :
               names \in {f \in [1..n -> PresetNames] :
                             \A i, j \in 1..n : f[i] = f[j] => i = j},
               stocks \in [1..n -> CoreStocks]} :
           n \in 0..MaxLots}

CoreInit ==
    /\ materials_list \in CoreLotLists
    /\ next_material_id = Len(materials_list) + 1
    /\ order_requirements \in CoreOrders
    \* the answer of the solver to an instance with no variable and a zero
    \* right-hand side is not determined by this repository
    /\ (materials_list = <<>> => order_requirements.total_weight > 0)
    /\ use_constraints \in BOOLEAN
    /\ opt_result = None
    /\ opt_inputs = None
    /\ invoked = FALSE
    /\ display = "not_run"
    /\ pc = "call"

CallOptimize ==
    /\ pc = "call"
    /\ opt_result' \in optimize_alloy(materials_list, order_requirements, use_constraints)
    /\ opt_inputs' = [materials |-> materials_list, order |-> order_requirements,
                      max_ratio_constraint |-> use_constraints]
    /\ invoked' = TRUE
    /\ pc' = "interpret"
    /\ UNCHANGED <<materials_list, next_material_id, order_requirements,
                   use_constraints, display>>

Interpret ==
    /\ pc = "interpret"
    /\ display' = InterpretResult(materials_list, order_requirements, opt_result)
    /\ pc' = "done"
    /\ UNCHANGED <<materials_list, next_material_id, order_requirements,
                   use_constraints, opt_result, opt_inputs, invoked>>

CoreNext == CallOptimize \/ Interpret

SpecCore == CoreInit /\ [][CoreNext]_vars

-----------------------------------------------------------------------------
(* The page: session state and the handlers of main.  Every widget         *)
(* interaction is one run of the script, which ends in the result area.    *)

\* is_material_already_added
is_material_already_added(material_type) ==
    \E i \in 1..Len(materials_list) : materials_list[i].name = material_type

\* add_material: the list with the new lot appended
add_material(material_type, stock_kg, custom_price) ==
    Append(materials_list, Lot(next_material_id, material_type, stock_kg, custom_price))

\* remove_material: the list without the lot of that id, unchanged when no lot has it
remove_material(material_id) ==
    IF \E i \in 1..Len(materials_list) : materials_list[i].id = material_id
    THEN SelectSeq(materials_list, LAMBDA material : material.id # material_id)
    ELSE materials_list

\* Variant of get_available_material_types: the added types are not excluded.
get_available_material_types_all == PresetNames

\* get_available_material_types: the presets whose name is not in the list
get_available_material_types ==
    {mat_type \in PresetNames :
        mat_type \notin {materials_list[i].name : i \in 1..Len(materials_list)}}

\* validate_order_inputs: the list of error messages
validate_order_inputs(weight, al_content, cu_content, mg_content, zn_content) ==
    (IF weight <= 0 THEN <<"weight must be positive">> ELSE <<>>)
    \o (IF ~(AlMin <= al_content /\ al_content <= AlMax)
        THEN <<"Al out of range">> ELSE <<>>)
    \o (IF ~(OtherMin <= cu_content /\ cu_content <= OtherMax)
        THEN <<"Cu out of range">> ELSE <<>>)
    \o (IF ~(OtherMin <= mg_content /\ mg_content <= OtherMax)
        THEN <<"Mg out of range">> ELSE <<>>)
    \o (IF ~(OtherMin <= zn_content /\ zn_content <= OtherMax)
        THEN <<"Zn out of range">> ELSE <<>>)
    \o (IF al_content + cu_content + mg_content + zn_content > TotalMax
        THEN <<"total content above 100">> ELSE <<>>)

\* validation_errors of the current script run (line 329)
validation_errors ==
    validate_order_inputs(order_requirements.total_weight,
                          order_requirements.element_content.Al,
                          order_requirements.element_content.Cu,
                          order_requirements.element_content.Mg,
                          order_requirements.element_content.Zn)

\* Variant of OptimizeEnabled: the button is not disabled on validation errors.
OptimizeEnabled_ignores_errors == materials_list # <<>>

\* lines 489-505: the optimize button exists and is enabled
OptimizeEnabled == materials_list # <<>> /\ validation_errors = <<>>

\* values typed into the stock and order widgets
UiStocks == {1000}

UiWeights == {1000}

UiContents ==
    {DefaultContent, [DefaultContent EXCEPT !.Al = AlMax]}

UiOrders ==
    {o \in [total_weight : UiWeights, element_content : UiContents] :
        /\ MinOrderWeight <= o.total_weight /\ o.total_weight <= MaxOrderWeight
        /\ AlMin <= o.element_content.Al /\ o.element_content.Al <= AlMax
        /\ \A e \in {"Cu", "Mg", "Zn"} :
              OtherMin <= o.element_content[e] /\ o.element_content[e] <= OtherMax}

Init ==
    /\ materials_list = <<>>
    /\ next_material_id = 1
    /\ order_requirements = [total_weight |-> 1000, element_content |-> DefaultContent]
    /\ use_constraints = TRUE
    /\ opt_result = None
    /\ opt_inputs = None
    /\ invoked = FALSE
    /\ display = "need_materials"
    /\ pc = "page"

\* lines 348-395: the add button, then st.rerun()
AddMaterial ==
    /\ pc = "page"
    /\ next_material_id < MaxId
    /\ Len(materials_list) < MaxLots
    /\ \E material_type \in get_available_material_types, stock_kg \in UiStocks :
          /\ materials_list' = add_material(material_type, stock_kg,
                                            material_presets[material_type].price)
          /\ next_material_id' = next_material_id + 1
          /\ display' = ResultArea(materials_list', order_requirements, opt_result)
    /\ invoked' = FALSE
    /\ UNCHANGED <<order_requirements, use_constraints, opt_result, opt_inputs, pc>>

\* lines 448-461: the remove button on a lot of the list, then st.rerun().  The
\* checkbox is not drawn while the list is empty and comes back with its default.
RemoveMaterial ==
    /\ pc = "page"
    /\ \E i \in 1..Len(materials_list) :
          /\ materials_list' = remove_material(materials_list[i].id)
          /\ display' = ResultArea(materials_list', order_requirements, opt_result)
          /\ use_constraints' = IF materials_list' = <<>> THEN TRUE ELSE use_constraints
    /\ invoked' = FALSE
    /\ UNCHANGED <<next_material_id, order_requirements, opt_result, opt_inputs, pc>>

\* lines 265-339: the order widgets are edited
ChangeOrder ==
    /\ pc = "page"
    /\ \E o \in UiOrders :
          /\ o # order_requirements
          /\ order_requirements' = o
          /\ display' = ResultArea(materials_list, o, opt_result)
    /\ invoked' = FALSE
    /\ UNCHANGED <<materials_list, next_material_id, use_constraints, opt_result,
                   opt_inputs, pc>>

\* line 497: the checkbox, drawn only while the list is not empty
ToggleConstraints ==
    /\ pc = "page"
    /\ materials_list # <<>>
    /\ use_constraints' = ~use_constraints
    /\ display' = ResultArea(materials_list, order_requirements, opt_result)
    /\ invoked' = FALSE
    /\ UNCHANGED <<materials_list, next_material_id, order_requirements, opt_result,
                   opt_inputs, pc>>

\* lines 505-515: the optimize button
ClickOptimize ==
    /\ pc = "page"
    /\ OptimizeEnabled
    /\ opt_result' \in optimize_alloy(materials_list, order_requirements, use_constraints)
    /\ opt_inputs' = [materials |-> materials_list, order |-> order_requirements,
                      max_ratio_constraint |-> use_constraints]
    /\ invoked' = TRUE
    /\ display' = ResultArea(materials_list, order_requirements, opt_result')
    /\ UNCHANGED <<materials_list, next_material_id, order_requirements,
                   use_constraints, pc>>

Next ==
    \/ AddMaterial
    \/ RemoveMaterial
    \/ ChangeOrder
    \/ ToggleConstraints
    \/ ClickOptimize

Spec == Init /\ [][Next]_vars

-----------------------------------------------------------------------------
(* Properties of the optimizer, checked under SpecCore *)

Returned == pc # "call"

Weights == opt_result.material_weights

Target(element) == order_requirements.element_content[element]

\* C1: on every successful call for a positive order weight, the composition
\* that calculate_final_composition computes from the returned weights and the
\* same lots is defined and lies, for each of Al, Cu, Mg and Zn, between
\* target - 0.5 and target + 0.5.
C1_CompositionBand ==
    (Returned /\ opt_result.success /\ order_requirements.total_weight > 0) =>
        LET comp == calculate_final_composition(materials_list, Weights)
        IN  /\ comp # None
            /\ comp # IndexError
            /\ \A element \in Range(elements) :
                  /\ (Target(element) - BAND) * comp[element].den <= comp[element].num
                  /\ comp[element].num <= (Target(element) + BAND) * comp[element].den

\* a successful blend of at least two lots in which some element is off target
C1_Witness ==
    /\ pc = "done"
    /\ opt_result.success
    /\ order_requirements.total_weight > 0
    /\ Cardinality({i \in 1..Len(materials_list) : Weights[i] > 0}) >= 2
    /\ LET comp == calculate_final_composition(materials_list, Weights)
       IN  \E element \in Range(elements) :
              comp[element].num # Target(element) * comp[element].den

\* number of lots that come before lot i in a stable ascending sort by stock
StockRank(materials, i) ==
    Cardinality({j \in 1..Len(materials) :
                    \/ materials[j].stock < materials[i].stock
                    \/ (materials[j].stock = materials[i].stock /\ j < i)})

LowestTwo(materials) == {i \in 1..Len(materials) : StockRank(materials, i) < 2}

\* C2: with the flag set and at least two lots, the builder adds exactly two
\* cap rows, x_i <= 0.3 * total_weight, one for each of the two lots of least
\* stock (ties broken by input order) and none for another lot; in every
\* successful result these two lots weigh at most 0.3 * total_weight.
C2_ScarcityCap ==
    (use_constraints /\ Len(materials_list) >= 2) =>
        LET n    == Len(materials_list)
            rows == ScarcityRows(materials_list, order_requirements, TRUE)
            all  == UbRows(materials_list, order_requirements, TRUE)
            rhs  == RatioNum * order_requirements.total_weight * GridDen
        IN  /\ Len(rows) = 2
            /\ Range(rows) = {[coeffs |-> [j \in 1..n |-> IF j = i THEN RatioDen ELSE 0],
                               rhs |-> rhs] : i \in LowestTwo(materials_list)}
            /\ Len(all) = 2 * Len(elements) + n + 2
            /\ (Returned /\ opt_result.success) =>
                  \A i \in LowestTwo(materials_list) : RatioDen * Weights[i] <= rhs

\* three lots of equal stock, the flag set: the first two are capped and the
\* third carries more than 0.3 of the order in a successful result
C2_Witness ==
    /\ pc = "done"
    /\ use_constraints
    /\ Len(materials_list) = 3
    /\ \A i \in 1..3 : materials_list[i].stock = materials_list[1].stock
    /\ opt_result.success
    /\ order_requirements.total_weight > 0
    /\ RatioDen * Weights[3] > RatioNum * order_requirements.total_weight * GridDen
    /\ RatioDen * Weights[1] = RatioNum * order_requirements.total_weight * GridDen

\* C3: with exactly one lot and the flag set no cap row is added: the rows
\* are those built with the flag cleared, the call returns what the call with
\* the flag cleared can return, and the lot can carry the whole order.
C3_SingleLotNoCap ==
    (use_constraints /\ Len(materials_list) = 1) =>
        /\ ScarcityRows(materials_list, order_requirements, TRUE) = <<>>
        /\ UbRows(materials_list, order_requirements, TRUE)
              = BandRows(materials_list, order_requirements) \o StockRows(materials_list)
        /\ Returned =>
              opt_result \in optimize_alloy(materials_list, order_requirements, FALSE)
        /\ (/\ materials_list[1].stock >= order_requirements.total_weight
            /\ \A element \in Range(elements) :
                  /\ Target(element) - BAND <= materials_list[1].element_content[element]
                  /\ materials_list[1].element_content[element] <= Target(element) + BAND)
           => \E r \in optimize_alloy(materials_list, order_requirements, TRUE) :
                 /\ r.success
                 /\ r.material_weights = <<order_requirements.total_weight * GridDen>>

\* one lot, the flag set, and the lot carries 100 % of a positive order
C3_Witness ==
    /\ pc = "done"
    /\ use_constraints
    /\ Len(materials_list) = 1
    /\ order_requirements.total_weight > 0
    /\ opt_result.success
    /\ Weights = <<order_requirements.total_weight * GridDen>>

TotalStock ==
    SumSeq([i \in 1..Len(materials_list) |-> materials_list[i].stock])

\* C4: when the stocks together are less than the order weight, the call
\* returns success = false with a message and without material_weights.
C4_InsufficientStock ==
    (Returned /\ TotalStock < order_requirements.total_weight) =>
        /\ ~opt_result.success
        /\ DOMAIN opt_result = {"success", "message"}

\* a single lot of stock 10 and an order of 100: the solver finds no point
C4_Witness ==
    /\ pc = "done"
    /\ Len(materials_list) = 1
    /\ materials_list[1].stock = 10
    /\ order_requirements.total_weight = 100
    /\ ~opt_result.success
    /\ opt_result.message = "no feasible solution"
    /\ display = "error_message"

SuccessFields == {"success", "total_cost", "material_weights", "message"}

FailureFields == {"success", "message"}

\* C5: whatever the solver answers (an optimum, no feasible point, an
\* exception), what a call returns is one of two complete shapes: success
\* with a cost and one weight per lot, or failure with a message; a solver
\* error and an infeasible problem give the same failure shape and differ in
\* the message only.
C5_ResultShape ==
    Returned =>
        \/ /\ DOMAIN opt_result = SuccessFields
           /\ opt_result.success
           /\ Len(opt_result.material_weights) = Len(materials_list)
           /\ opt_result.total_cost
                 = Dot(Objective(materials_list), opt_result.material_weights)
        \/ /\ DOMAIN opt_result = FailureFields
           /\ ~opt_result.success
           /\ opt_result.message \in {"no feasible solution", "solver error"}

\* the solver raised and the call returned the failure value
C5_Witness ==
    /\ pc = "done"
    /\ DOMAIN opt_result = FailureFields
    /\ opt_result.message = "solver error"
    /\ display = "error_message"

ScenarioLots == <<Lot(1, "can", 5000, 150), Lot(2, "cable_core", 5000, 180)>>

ScenarioOrder == [total_weight |-> 1000, element_content |-> ScenarioContent]

\* C6: for the lots A = can and B = cable_core with stock 5000 each and the
\* order of 1000 kg with target Al 98, Cu 0.2, Mg 0.5, Zn 0.5, the call with the
\* default max_ratio_constraint = True (the solver not raising) returns
\* success, weights that sum to 1000 and a composition inside the band.
C6_ScenarioSucceeds ==
    (/\ Returned
     /\ materials_list = ScenarioLots
     /\ order_requirements = ScenarioOrder
     /\ use_constraints
     /\ opt_result.message # "solver error") =>
        /\ opt_result.success
        /\ SumSeq(Weights) = order_requirements.total_weight * GridDen
        /\ LET comp == calculate_final_composition(materials_list, Weights)
           IN  \A element \in Range(elements) :
                  /\ (Target(element) - BAND) * comp[element].den <= comp[element].num
                  /\ comp[element].num <= (Target(element) + BAND) * comp[element].den

ReportedError == {"error_message", "computation_error"}

-----------------------------------------------------------------------------
(* Properties of the page, checked under Spec *)

\* the success branch of the result area ran in the last script run
Interpreted ==
    /\ materials_list # <<>>
    /\ opt_result # None
    /\ opt_result.success

\* C7: whenever a stored successful result is interpreted, the lot list and
\* the order it is interpreted against are those of the call that computed
\* it, and it holds one weight per lot of the list.
C7_ResultMatchesInputs ==
    Interpreted =>
        /\ opt_inputs.materials = materials_list
        /\ opt_inputs.order = order_requirements
        /\ Len(Weights) = Len(materials_list)

UniqueNames(materials) ==
    \A i, j \in 1..Len(materials) : materials[i].name = materials[j].name => i = j

\* C8: the lot list never holds two lots of the same name, no offered type is
\* already in the list, and optimize_alloy is never called with two lots of
\* the same name.
C8_UniqueNames ==
    /\ UniqueNames(materials_list)
    /\ \A material_type \in get_available_material_types :
          ~is_material_already_added(material_type)
    /\ opt_inputs # None => UniqueNames(opt_inputs.materials)

\* optimize_alloy was just called with a list of two lots of different names
C8_Witness ==
    /\ invoked
    /\ Len(materials_list) = 2
    /\ opt_inputs.materials = materials_list
    /\ Cardinality(get_available_material_types) = Cardinality(PresetNames) - 2

ValidOrder(o) ==
    /\ o.total_weight > 0
    /\ AlMin <= o.element_content.Al /\ o.element_content.Al <= AlMax
    /\ \A e \in {"Cu", "Mg", "Zn"} :
          OtherMin <= o.element_content[e] /\ o.element_content[e] <= OtherMax
    /\ o.element_content.Al + o.element_content.Cu
          + o.element_content.Mg + o.element_content.Zn <= TotalMax

\* C10: a script run calls optimize_alloy only with a non-empty lot list and
\* an order that validate_order_inputs accepts (positive weight, every target
\* in its range, the targets together at most 100); a run with no lot or with
\* a validation error makes no call and leaves the stored result as it is.
C10_CallerGuards ==
    [][ /\ invoked' =>
             /\ materials_list # <<>>
             /\ validation_errors = <<>>
             /\ ValidOrder(order_requirements)
             /\ opt_inputs'.materials = materials_list
             /\ opt_inputs'.order = order_requirements
        /\ (materials_list' = <<>> \/ ~ValidOrder(order_requirements')) =>
             /\ ~invoked'
             /\ opt_result' = opt_result
             /\ opt_inputs' = opt_inputs ]_vars

\* lots are listed and a result is stored, the order is invalid: no call
C10_Witness ==
    /\ materials_list # <<>>
    /\ validation_errors # <<>>
    /\ ~ValidOrder(order_requirements)
    /\ opt_result # None
    /\ ~invoked

-----------------------------------------------------------------------------
(* The two-lot case of the scarcity cap, checked under SpecCore *)

\* C11: with exactly two lots, the flag set and a positive order weight, both
\* lots get the row x_i <= 0.3 * total_weight, so every point that satisfies
\* the cap rows weighs at most 0.6 * total_weight and the call returns
\* success = false, whatever the stocks, prices, contents and targets.
C11_TwoLotsAlwaysFail ==
    (/\ Len(materials_list) = 2
     /\ use_constraints
     /\ order_requirements.total_weight > 0) =>
        LET rows == ScarcityRows(materials_list, order_requirements, TRUE)
            rhs  == RatioNum * order_requirements.total_weight * GridDen
        IN  /\ \A i \in 1..2 :
                  \E j \in 1..Len(rows) :
                     /\ rows[j].coeffs = [l \in 1..2 |-> IF l = i THEN RatioDen ELSE 0]
                     /\ rows[j].rhs = rhs
            /\ 2 * rhs < RatioDen * order_requirements.total_weight * GridDen
            /\ Returned =>
                  /\ ~opt_result.success
                  /\ DOMAIN opt_result = FailureFields

\* two lots with stock above the order weight: the call with the flag set
\* finds no point, the call with the flag cleared can succeed
C11_Witness ==
    /\ pc = "done"
    /\ Len(materials_list) = 2
    /\ use_constraints
    /\ order_requirements.total_weight > 0
    /\ \A i \in 1..2 : materials_list[i].stock >= order_requirements.total_weight
    /\ opt_result.message = "no feasible solution"
    /\ \E r \in optimize_alloy(materials_list, order_requirements, FALSE) : r.success

====
